---- MODULE Spec2Model ----
(***************************************************************************)
(* topicfoundry: ABI JSON in, event models and their projections out.      *)
(*                                                                         *)
(* Python str values are TLA+ strings; a Python dict is a function whose   *)
(* DOMAIN is the set of keys present; a Python list is a sequence.         *)
(***************************************************************************)
EXTENDS Integers, Sequences, FiniteSets, TLC

VARIABLES fs, argv, pc, files, loaded, abi, events, schemas, stubs, stdout, written, err

vars == <<fs, argv, pc, files, loaded, abi, events, schemas, stubs, stdout, written, err>>

(***************************************************************************)
(* Bounds of the model.                                                    *)
(***************************************************************************)
\* longest parameter list of an event in the single-event inputs
MaxParams == 3
\* longest parameter list of an event in the two-event inputs
MaxPairParams == 2
\* most path arguments on a command line
MaxArgs == 2

(***************************************************************************)
(* Python string primitives.                                               *)
(***************************************************************************)
\* the printable ASCII characters the inputs use, as runs of consecutive code
\* points: <<first code point, the run>>
CharRuns == << <<32, " !">>,
              <<35, "#$%&'()*+,-./0123456789:;<=>?@ABCDEFGHIJKLMNOPQRSTUVWXYZ[">>,
              <<93, "]^_">>,
              <<97, "abcdefghijklmnopqrstuvwxyz{|}~">> >>

CharAt(s, i) == SubSeq(s, i, i)

RunTable(r) == [c \in {CharAt(r[2], i) : i \in 1..Len(r[2])} |->
                 r[1] - 1 + (CHOOSE i \in 1..Len(r[2]) : CharAt(r[2], i) = c)]

OrdTable == RunTable(CharRuns[1]) @@ RunTable(CharRuns[2]) @@ RunTable(CharRuns[3]) @@ RunTable(CharRuns[4])

Ord(c) == OrdTable[c]

Chr(n) == LET r == CHOOSE r \in {CharRuns[k] : k \in 1..Len(CharRuns)} : n >= r[1] /\ n < r[1] + Len(r[2])
          IN CharAt(r[2], n - r[1] + 1)

LowerChar(c) == IF Ord(c) >= Ord("A") /\ Ord(c) <= Ord("Z") THEN Chr(Ord(c) + Ord("a") - Ord("A")) ELSE c

RECURSIVE Lower(_)
Lower(s) == IF s = "" THEN "" ELSE LowerChar(Head(s)) \o Lower(Tail(s))

EndsWith(s, suf) == Len(s) >= Len(suf) /\ SubSeq(s, Len(s) - Len(suf) + 1, Len(s)) = suf

RECURSIVE Join(_, _)
Join(sep, ss) ==
  IF ss = <<>> THEN ""
  ELSE IF Len(ss) = 1 THEN ss[1]
  ELSE ss[1] \o sep \o Join(sep, Tail(ss))

Digits == "0123456789"

RECURSIVE Str(_)
Str(n) == IF n < 10 THEN CharAt(Digits, n + 1) ELSE Str(n \div 10) \o CharAt(Digits, (n % 10) + 1)

\* str < str, by code point
RECURSIVE StrLess(_, _)
StrLess(a, b) ==
  IF b = "" THEN FALSE
  ELSE IF a = "" THEN TRUE
  ELSE IF Head(a) = Head(b) THEN StrLess(Tail(a), Tail(b))
  ELSE Ord(Head(a)) < Ord(Head(b))

\* index of the last occurrence of character c in s, 0 when there is none
RECURSIVE RFind(_, _, _)
RFind(s, c, i) == IF i = 0 THEN 0 ELSE IF CharAt(s, i) = c THEN i ELSE RFind(s, c, i - 1)

basename(p) == SubSeq(p, RFind(p, "/", Len(p)) + 1, Len(p))

\* os.path.splitext(p)[0]: a leading dot of the base name starts no extension
splitext0(p) ==
  LET d == RFind(p, ".", Len(p))
      b == RFind(p, "/", Len(p))
  IN IF d > b + 1 THEN SubSeq(p, 1, d - 1) ELSE p

\* dict.get(k, default)
Get(d, k, default) == IF k \in DOMAIN d THEN d[k] ELSE default

\* JSON null where a string is expected (Python None)
JNull == "<None>"

NoError == [kind |-> "none", msg |-> ""]

ClickException(m) == [kind |-> "ClickException", msg |-> m]

(***************************************************************************)
(* helpers                                                                 *)
(***************************************************************************)
\* A file's text is [valid |-> FALSE] when it is not JSON, and otherwise
\* [valid |-> TRUE, data |-> v] with v the parsed value, tagged by its JSON
\* type t; a JSON string carries in enc what json.loads makes of its text.
load_abi_any(path, fsys) ==
  LET text == fsys[path] IN
  IF ~text.valid THEN [err |-> [kind |-> "JSONDecodeError", msg |-> ""], abi |-> <<>>]
  ELSE LET data == text.data IN
    IF data.t = "list" THEN [err |-> NoError, abi |-> data.v]
    ELSE IF data.t = "dict" /\ "abi" \in DOMAIN data.v /\ data.v["abi"].t = "list"
      THEN [err |-> NoError, abi |-> data.v["abi"].v]
    ELSE IF data.t = "dict" /\ "result" \in DOMAIN data.v
            /\ data.v["result"].t = "str"
            /\ data.v["result"].enc.valid
            /\ data.v["result"].enc.data.t = "list"
      THEN [err |-> NoError, abi |-> data.v["result"].enc.data.v]
    ELSE [err |-> ClickException("Unrecognized ABI format: " \o path), abi |-> <<>>]

normalize_type(t) ==
  IF t = "uint" THEN "uint256"
  ELSE IF t = "int" THEN "int256"
  ELSE t

event_signature(name, inputs) ==
  name \o "(" \o Join(",", [i \in 1..Len(inputs) |-> normalize_type(Get(inputs[i], "type", ""))]) \o ")"

HexDigits == "0123456789abcdef"

RECURSIVE Hex(_, _)
Hex(n, width) == IF width = 0 THEN "" ELSE Hex(n \div 16, width - 1) \o CharAt(HexDigits, (n % 16) + 1)

\* eth_utils.keccak(text=...).hex(): the digest of the text's bytes in lower-case
\* hex. Keccak-256 itself is library code; a 16-bit polynomial digest of the same
\* bytes stands for it.
RECURSIVE keccak_hex(_, _)
keccak_hex(text, h) ==
  IF text = "" THEN Hex(h, 4)
  ELSE keccak_hex(Tail(text), (h * 31 + Ord(Head(text))) % 65536)

topic0(sig) == "0x" \o keccak_hex(sig, 7)

\* SQL type mappings
PG_TYPES == [address |-> "bytea", bool |-> "boolean", bytes32 |-> "bytea", bytes |-> "bytea",
             string |-> "text", uint256 |-> "numeric(78)", int256 |-> "numeric(78)"]

BQ_TYPES == [address |-> "BYTES", bool |-> "BOOL", bytes32 |-> "BYTES", bytes |-> "BYTES",
             string |-> "STRING", uint256 |-> "NUMERIC", int256 |-> "NUMERIC"]

CH_TYPES == [address |-> "FixedString(20)", bool |-> "UInt8", bytes32 |-> "FixedString(32)",
             bytes |-> "String", string |-> "String", uint256 |-> "Decimal(76,0)",
             int256 |-> "Decimal(76,0)"]

to_sql_type(sol0, target) ==
  LET sol == normalize_type(sol0)
      base == sol
  IN IF EndsWith(sol, "[]") THEN (IF target = "postgres" THEN "jsonb" ELSE "JSON")
     ELSE IF target = "postgres" THEN Get(PG_TYPES, base, "text")
     ELSE IF target = "bigquery"
       THEN (IF base \in {"uint256", "int256"} THEN "BIGNUMERIC" ELSE Get(BQ_TYPES, base, "STRING"))
     ELSE IF target = "clickhouse" THEN Get(CH_TYPES, base, "String")
     ELSE "text"

(***************************************************************************)
(* extraction                                                              *)
(***************************************************************************)
\* make_param with the type left as the source spells it
make_param_unnormalized(p, i) ==
  [name     |-> (IF Get(p, "name", "") = "" THEN "arg" \o Str(i) ELSE p["name"]),
   type     |-> Get(p, "type", ""),
   indexed  |-> Get(p, "indexed", FALSE),
   position |-> i]

\* make_param counting positions from 1
make_param_one_based(p, i) ==
  [name     |-> (IF Get(p, "name", "") = "" THEN "arg" \o Str(i) ELSE p["name"]),
   type     |-> normalize_type(Get(p, "type", "")),
   indexed  |-> Get(p, "indexed", FALSE),
   position |-> i + 1]

\* make_param with p.get("name", "arg<i>"): an empty name stays empty
make_param_default_name(p, i) ==
  [name     |-> Get(p, "name", "arg" \o Str(i)),
   type     |-> normalize_type(Get(p, "type", "")),
   indexed  |-> Get(p, "indexed", FALSE),
   position |-> i]

\* Param(...) of the i-th input (i counts from 0, as enumerate does)
make_param(p, i) ==
  [name     |-> (IF Get(p, "name", "") = "" THEN "arg" \o Str(i) ELSE p["name"]),
   type     |-> normalize_type(Get(p, "type", "")),
   indexed  |-> Get(p, "indexed", FALSE),
   position |-> i]

\* make_event hashing the declaration, parameter names included
make_event_hash_declaration(it, path) ==
  LET name == Get(it, "name", "")
      ins  == Get(it, "inputs", <<>>)
      sig  == event_signature(name, ins)
      decl == name \o "(" \o Join(",", [k \in 1..Len(ins) |->
                normalize_type(Get(ins[k], "type", "")) \o " " \o Get(ins[k], "name", "")]) \o ")"
  IN [file      |-> basename(path),
      contract  |-> splitext0(basename(path)),
      name      |-> name,
      anonymous |-> Get(it, "anonymous", FALSE),
      signature |-> sig,
      topic0    |-> topic0(decl),
      inputs    |-> [k \in 1..Len(ins) |-> make_param(ins[k], k - 1)]]

\* one pass of the loop body of extract_events, for an entry of type "event"
make_event(it, path) ==
  LET name == Get(it, "name", "")
      ins  == Get(it, "inputs", <<>>)
      sig  == event_signature(name, ins)
      t0   == topic0(sig)
  IN [file      |-> basename(path),
      contract  |-> splitext0(basename(path)),
      name      |-> name,
      anonymous |-> Get(it, "anonymous", FALSE),
      signature |-> sig,
      topic0    |-> t0,
      inputs    |-> [k \in 1..Len(ins) |-> make_param(ins[k], k - 1)]]

\* str.join raises TypeError on an item that is not a str
JoinRaises(ins) == \E k \in 1..Len(ins) : Get(ins[k], "type", "") = JNull

RECURSIVE extract_loop(_, _, _, _)
extract_loop(entries, k, path, out) ==
  IF k > Len(entries) THEN [err |-> NoError, evs |-> out]
  ELSE LET it == entries[k] IN
    IF Get(it, "type", JNull) # "event" THEN extract_loop(entries, k + 1, path, out)
    ELSE IF JoinRaises(Get(it, "inputs", <<>>))
      THEN [err |-> [kind |-> "TypeError", msg |-> ""], evs |-> <<>>]
    ELSE extract_loop(entries, k + 1, path, Append(out, make_event(it, path)))

extract_events(path, fsys) ==
  LET l == load_abi_any(path, fsys) IN
  IF l.err # NoError THEN [err |-> l.err, evs |-> <<>>]
  ELSE extract_loop(l.abi, 1, path, <<>>)

\* fnmatch: * matches any run of characters, [seq] one character of seq
RECURSIVE fnmatch(_, _)
fnmatch(name, pat) ==
  IF pat = "" THEN name = ""
  ELSE IF Head(pat) = "*"
    THEN fnmatch(name, Tail(pat)) \/ (name # "" /\ fnmatch(Tail(name), pat))
  ELSE IF Head(pat) = "[" /\ \E j \in 3..Len(pat) : CharAt(pat, j) = "]"
    THEN LET close == CHOOSE j \in 3..Len(pat) :
                        CharAt(pat, j) = "]" /\ \A m \in 3..(j - 1) : CharAt(pat, m) # "]"
         IN /\ name # ""
            /\ \E m \in 2..(close - 1) : CharAt(pat, m) = Head(name)
            /\ fnmatch(Tail(name), SubSeq(pat, close + 1, Len(pat)))
  ELSE name # "" /\ Head(name) = Head(pat) /\ fnmatch(Tail(name), Tail(pat))

\* glob.glob(p), as a set: the files of the working directory that p matches
glob(p, fsys) == {f \in DOMAIN fsys : fnmatch(f, p)}

isfile(p, fsys) == p \in DOMAIN fsys

RECURSIVE sorted(_)
sorted(S) ==
  IF S = {} THEN <<>>
  ELSE LET m == CHOOSE x \in S : \A y \in S \ {x} : StrLess(x, y)
       IN <<m>> \o sorted(S \ {m})

\* the set of out after the loop over paths
RECURSIVE expand_loop(_, _, _)
expand_loop(paths, k, fsys) ==
  IF k > Len(paths) THEN {}
  ELSE LET p == paths[k]
           g == glob(p, fsys)
       IN (IF g # {} THEN g ELSE IF isfile(p, fsys) THEN {p} ELSE {})
          \cup expand_loop(paths, k + 1, fsys)

\* expand_paths failing as soon as one path resolves to nothing
expand_paths_strict(paths, fsys) ==
  LET uniq == sorted(expand_loop(paths, 1, fsys)) IN
  IF uniq = <<>> \/ \E k \in 1..Len(paths) : glob(paths[k], fsys) = {} /\ ~isfile(paths[k], fsys)
    THEN [err |-> ClickException("No ABI files found"), files |-> <<>>]
  ELSE [err |-> NoError, files |-> uniq]

expand_paths(paths, fsys) ==
  LET uniq == sorted(expand_loop(paths, 1, fsys)) IN
  IF uniq = <<>> THEN [err |-> ClickException("No ABI files found"), files |-> <<>>]
  ELSE [err |-> NoError, files |-> uniq]

(***************************************************************************)
(* DDL generators                                                          *)
(***************************************************************************)
\* '{idx_|data_}{name}'.lower(), the column and property name of a parameter
param_key(p) ==
  Lower((IF p.indexed THEN "idx_" ELSE "data_")
        \o (IF p.name # "" THEN p.name ELSE "arg" \o Str(p.position)))

\* (the back quote of the BigQuery and ClickHouse identifiers is written ')
ddl_for_event(ev, target, schema) ==
  LET tbl == Lower(ev.contract \o "_" \o ev.name)
      tblname == IF target \in {"bigquery", "clickhouse"} THEN tbl ELSE schema \o "." \o tbl
      bytes == IF target = "postgres" THEN "BYTEA"
               ELSE IF target = "bigquery" THEN "BYTES" ELSE "FixedString(32)"
      common == << <<"block_number", IF target # "clickhouse" THEN "BIGINT" ELSE "UInt64">>,
                   <<"block_time", IF target # "clickhouse" THEN "TIMESTAMP" ELSE "DateTime">>,
                   <<"tx_hash", bytes>>,
                   <<"log_index", IF target # "clickhouse" THEN "INT" ELSE "UInt32">>,
                   <<"address", to_sql_type("address", target)>>,
                   <<"topic0", bytes>> >>
      cols == common \o [k \in 1..Len(ev.inputs) |->
                           <<param_key(ev.inputs[k]), to_sql_type(ev.inputs[k].type, target)>>]
      plain == Join(",\n  ", [k \in 1..Len(cols) |-> cols[k][1] \o " " \o cols[k][2]])
      ticked == Join(",\n  ", [k \in 1..Len(cols) |-> "'" \o cols[k][1] \o "' " \o cols[k][2]])
  IN IF target = "postgres"
       THEN "-- " \o ev.signature \o "\nCREATE TABLE IF NOT EXISTS " \o tblname
            \o " (\n  " \o plain \o "\n);"
     ELSE IF target = "bigquery"
       THEN "-- " \o ev.signature \o "\nCREATE TABLE IF NOT EXISTS '" \o tblname
            \o "' (\n  " \o ticked \o "\n);"
     ELSE IF target = "clickhouse"
       THEN "-- " \o ev.signature \o "\nCREATE TABLE IF NOT EXISTS " \o tblname
            \o " (\n  " \o ticked \o "\n)\nENGINE = MergeTree()\nORDER BY (block_number, log_index);"
     ELSE ""

(***************************************************************************)
(* JSON schema                                                             *)
(***************************************************************************)
json_type(t) ==
  IF EndsWith(t, "[]") THEN [type |-> "array", items |-> [type |-> "string"]]
  ELSE IF t \in {"uint256", "int256"} THEN [type |-> "string", pattern |-> "^-?\\d+$"]
  ELSE IF t \in {"address", "bytes32", "bytes"} THEN [type |-> "string"]
  ELSE IF t = "bool" THEN [type |-> "boolean"]
  ELSE [type |-> "string"]

\* props after the loop has assigned props[key] for inputs k..n
RECURSIVE props_loop(_, _, _)
props_loop(props, inputs, k) ==
  IF k > Len(inputs) THEN props
  ELSE LET key == param_key(inputs[k])
           val == json_type(inputs[k].type)
       IN props_loop([x \in DOMAIN props \cup {key} |-> IF x = key THEN val ELSE props[x]],
                     inputs, k + 1)

json_schema_for_event(ev) ==
  LET fixed == [block_number |-> [type |-> "integer"],
                block_time   |-> [type |-> "string", format |-> "date-time"],
                tx_hash      |-> [type |-> "string"],
                log_index    |-> [type |-> "integer"],
                address      |-> [type |-> "string"],
                topic0       |-> [type |-> "string"]]
  IN ("$schema" :> "https://json-schema.org/draft/2020-12/schema") @@
     [title                |-> ev.contract \o "." \o ev.name,
      type                 |-> "object",
      properties           |-> props_loop(fixed, ev.inputs, 1),
      additionalProperties |-> FALSE]

(***************************************************************************)
(* filter stubs                                                            *)
(***************************************************************************)
\* filter_stub with a placeholder for every parameter
filter_stub_all_inputs(ev) ==
  [address |-> "<contract_address_if_known>",
   topics  |-> <<ev.topic0>> \o [k \in 1..Len(ev.inputs) |-> "<topic for indexed arg>"]]

\* the stub filters_cmd builds for one event
filter_stub(ev) ==
  LET idx_count == Cardinality({k \in 1..Len(ev.inputs) : ev.inputs[k].indexed})
  IN [address |-> "<contract_address_if_known>",
      topics  |-> <<ev.topic0>> \o [k \in 1..idx_count |-> "<topic for indexed arg>"]]

(***************************************************************************)
(* CLI                                                                     *)
(***************************************************************************)
\* one click.echo / csv row / write at the named site of the source
Echo(site, data) == [site |-> site, data |-> data]

RECURSIVE Flatten(_)
Flatten(ss) == IF ss = <<>> THEN <<>> ELSE Head(ss) \o Flatten(Tail(ss))

\* the loop "for p in files: ... extract_events(p)" of every command: the files
\* load_abi_any was called on, the events of each file extracted, and the
\* exception that ended the loop, if one did
RECURSIVE extract_all(_, _, _, _)
extract_all(fl, k, fsys, acc) ==
  IF k > Len(fl) THEN acc
  ELSE LET r == extract_events(fl[k], fsys) IN
    IF r.err # NoError
      THEN [loaded |-> Append(acc.loaded, fl[k]), per |-> acc.per, err |-> r.err]
    ELSE extract_all(fl, k + 1, fsys,
           [loaded |-> Append(acc.loaded, fl[k]), per |-> Append(acc.per, r.evs), err |-> NoError])

\* the loop skipping a file that fails to load and reporting the failure last
RECURSIVE extract_all_skipping(_, _, _, _)
extract_all_skipping(fl, k, fsys, acc) ==
  IF k > Len(fl) THEN acc
  ELSE LET r == extract_events(fl[k], fsys) IN
    IF r.err # NoError
      THEN extract_all_skipping(fl, k + 1, fsys,
             [loaded |-> Append(acc.loaded, fl[k]), per |-> Append(acc.per, <<>>), err |-> r.err])
    ELSE extract_all_skipping(fl, k + 1, fsys,
           [loaded |-> Append(acc.loaded, fl[k]), per |-> Append(acc.per, r.evs), err |-> acc.err])

run_files_skipping(fl, fsys) ==
  extract_all_skipping(fl, 1, fsys, [loaded |-> <<>>, per |-> <<>>, err |-> NoError])

run_files(fl, fsys) == extract_all(fl, 1, fsys, [loaded |-> <<>>, per |-> <<>>, err |-> NoError])

NoFile == [path |-> "", content |-> <<>>]

\* the invocation ends, normally or by the exception r.err; events holds every
\* EventModel extracted up to then
Exit(f, r, out, wr) ==
  /\ pc' = "exit"
  /\ files' = f
  /\ loaded' = r.loaded
  /\ events' = Flatten(r.per)
  /\ stdout' = out
  /\ written' = wr
  /\ err' = r.err
  /\ UNCHANGED <<fs, argv, abi, schemas, stubs>>

Unresolved(e) == Exit(<<>>, [loaded |-> <<>>, per |-> <<>>, err |-> e], <<>>, NoFile)

build_lines(ev) ==
  <<Echo("event", ev.file \o ": " \o ev.name \o "  topic0=" \o ev.topic0)>>
  \o [k \in 1..Len(ev.inputs) |->
        Echo("param", "   - [" \o (IF ev.inputs[k].indexed THEN "idx" ELSE "dat") \o "] "
                      \o ev.inputs[k].name \o ":" \o ev.inputs[k].type)]

build_cmd(pretty) ==
  /\ pc = "start"
  /\ LET x == expand_paths(argv, fs) IN
     IF x.err # NoError THEN Unresolved(x.err)
     ELSE LET r == run_files(x.files, fs)
              evs == Flatten(r.per)
          IN IF r.err # NoError THEN Exit(x.files, r, <<>>, NoFile)
             ELSE IF pretty
               THEN Exit(x.files, r,
                         Flatten([k \in 1..Len(evs) |-> build_lines(evs[k])])
                         \o <<Echo("total", "\nTotal events: " \o Str(Len(evs)))>>, NoFile)
             ELSE Exit(x.files, r, <<Echo("json", evs)>>, NoFile)

ddl_cmd(target, schema) ==
  /\ pc = "start"
  /\ LET x == expand_paths(argv, fs) IN
     IF x.err # NoError THEN Unresolved(x.err)
     ELSE LET r == run_files(x.files, fs)
              evs == Flatten(r.per)
          IN IF r.err # NoError THEN Exit(x.files, r, <<>>, NoFile)
             ELSE Exit(x.files, r,
                       <<Echo("sql", Join("\n\n", [k \in 1..Len(evs) |-> ddl_for_event(evs[k], target, schema)]))>>,
                       NoFile)

json_item(ev) ==
  [file |-> ev.file, contract |-> ev.contract, event |-> ev.name, signature |-> ev.signature,
   topic0 |-> ev.topic0, schema |-> json_schema_for_event(ev)]

\* out = "" stands for no --out option
json_cmd(out) ==
  /\ pc = "start"
  /\ LET x == expand_paths(argv, fs) IN
     IF x.err # NoError THEN Unresolved(x.err)
     ELSE LET r == run_files(x.files, fs)
              evs == Flatten(r.per)
              doc == [version |-> "topicfoundry.v1", events |-> [k \in 1..Len(evs) |-> json_item(evs[k])]]
          IN IF r.err # NoError THEN Exit(x.files, r, <<>>, NoFile)
             ELSE IF out # ""
               THEN Exit(x.files, r, <<Echo("notice", "Wrote JSON schemas: " \o out)>>,
                         [path |-> out, content |-> <<Echo("json", doc)>>])
             ELSE Exit(x.files, r, <<Echo("json", doc)>>, NoFile)

dict_header == <<"contract", "event", "signature", "topic0", "position", "param", "type", "indexed">>

dict_rows(ev) ==
  [k \in 1..Len(ev.inputs) |->
     Echo("csv_row", <<ev.contract, ev.name, ev.signature, ev.topic0,
                       Str(ev.inputs[k].position), ev.inputs[k].name, ev.inputs[k].type,
                       IF ev.inputs[k].indexed THEN "1" ELSE "0">>)]

dict_cmd(out) ==
  /\ pc = "start"
  /\ LET x == expand_paths(argv, fs) IN
     IF x.err # NoError THEN Unresolved(x.err)
     ELSE LET r == run_files(x.files, fs)
              evs == Flatten(r.per)
              csv == <<Echo("csv_header", dict_header)>>
                     \o Flatten([k \in 1..Len(evs) |-> dict_rows(evs[k])])
          IN IF r.err # NoError THEN Exit(x.files, r, <<>>, NoFile)
             ELSE IF out # ""
               THEN Exit(x.files, r, <<Echo("notice", "Wrote dictionary: " \o out)>>,
                         [path |-> out, content |-> csv])
             ELSE Exit(x.files, r, csv, NoFile)

\* str(list of str)
repr_list(ss) == "[" \o Join(", ", [k \in 1..Len(ss) |-> "'" \o ss[k] \o "'"]) \o "]"

\* what filters_cmd prints for one file whose events evs were extracted (the dash
\* of the pretty line is written -)
filters_file(path, evs, pretty) ==
  (IF pretty THEN <<Echo("header", "== " \o basename(path) \o " ==")>> ELSE <<>>)
  \o [k \in 1..Len(evs) |->
        IF pretty
          THEN Echo("stub", "  " \o evs[k].name \o " - topics: " \o repr_list(filter_stub(evs[k]).topics))
        ELSE Echo("stub", [event |-> evs[k].name, filter |-> filter_stub(evs[k])])]
  \o (IF pretty THEN <<Echo("blank", "")>> ELSE <<>>)

\* every file is printed right after its extraction, before the next is loaded
filters_cmd(pretty) ==
  /\ pc = "start"
  /\ LET x == expand_paths(argv, fs) IN
     IF x.err # NoError THEN Unresolved(x.err)
     ELSE LET r == run_files(x.files, fs)
          IN Exit(x.files, r,
                  Flatten([k \in 1..Len(r.per) |-> filters_file(r.loaded[k], r.per[k], pretty)]),
                  NoFile)

(***************************************************************************)
(* The command line: a working directory, path arguments, one command.     *)
(***************************************************************************)
EmptyDict == [x \in {} |-> ""]

P_from  == [name |-> "from", type |-> "address", indexed |-> TRUE]
P_to    == [name |-> "to", type |-> "address", indexed |-> TRUE]
P_value == [name |-> "value", type |-> "uint256", indexed |-> FALSE]
P_Value == [name |-> "Value", type |-> "int"]
P_uint  == [type |-> "uint", indexed |-> TRUE]
P_array == [name |-> "", type |-> "uint[]"]
P_arg1  == [name |-> "arg1", type |-> "bool", indexed |-> FALSE]
P_null  == [name |-> "data", type |-> JNull]

RawParams == {EmptyDict, P_from, P_to, P_value, P_Value, P_uint, P_array, P_arg1, P_null}

PairParams == {P_from, P_to, P_uint}

\* a compiler rejects two parameters of one event declared with the same name
DistinctNames(ins) ==
  \A i, j \in 1..Len(ins) :
    (i # j /\ Get(ins[i], "name", "") # "") => Get(ins[i], "name", "") # Get(ins[j], "name", "")

ParamLists(P, n) == {ins \in UNION {[1..m -> P] : m \in 0..n} : DistinctNames(ins)}

WithOptional(base, key, vals) == {base} \cup {base @@ (key :> v) : v \in vals}

EventEntries(P, n, names) ==
  {[type |-> "event", inputs |-> ins] @@ nm : ins \in ParamLists(P, n), nm \in names}

FunctionEntry == [type |-> "function", name |-> "transfer", inputs |-> <<P_to, P_value>>]

OtherEntries == {FunctionEntry, [name |-> "Orphan"], [type |-> "event"],
                 [type |-> "event", name |-> "Paused", anonymous |-> FALSE]}

JList(entries) == [t |-> "list", v |-> entries]
JDict(d) == [t |-> "dict", v |-> d]
JStr(enc) == [t |-> "str", enc |-> enc]
JNum == [t |-> "number"]
JNone == [t |-> "null"]

Text(data) == [valid |-> TRUE, data |-> data]
NotJson == [valid |-> FALSE]

TransferAbi == <<[type |-> "event", name |-> "Transfer", inputs |-> <<P_from, P_to, P_value>>],
                 FunctionEntry>>
ApprovalAbi == <<[type |-> "event", name |-> "Approval", anonymous |-> FALSE,
                  inputs |-> <<[name |-> "owner", type |-> "address", indexed |-> TRUE],
                               [name |-> "spender", type |-> "address", indexed |-> TRUE],
                               [name |-> "value", type |-> "uint"]>>]>>

FooBar == Text(JDict([foo |-> JStr(NotJson)]))

\* the container shapes: every combination of an "abi", a "result" and a "foo" key
DictShapes ==
  {JDict(a @@ r @@ f) :
     a \in {EmptyDict} \cup {[abi |-> x] : x \in {JList(TransferAbi), JStr(NotJson), JNone}},
     r \in {EmptyDict} \cup {[result |-> x] :
              x \in {JStr(Text(JList(ApprovalAbi))), JStr(Text(JDict(EmptyDict))), JStr(NotJson),
                     JStr(Text(JNum)), JNum, JNone, JList(ApprovalAbi)}},
     f \in {EmptyDict, [foo |-> JStr(NotJson)]}}

Shapes == {NotJson, Text(JNum), Text(JNone), Text(JStr(Text(JList(TransferAbi)))),
           Text(JList(<<>>)), Text(JList(TransferAbi))}
          \cup {Text(d) : d \in DictShapes}

CliContents == {NotJson, FooBar, Text(JList(TransferAbi)),
                Text(JDict([status |-> JStr(Text(JNum)), result |-> JStr(Text(JList(ApprovalAbi)))]))}

FileNames == {"a.json", "b.json", "[b].json"}

Patterns == {"a.json", "*.json", "[b].json", "c.json"}

\* the path arguments of a command line: up to MaxArgs patterns, none given twice
ArgLists ==
  {a \in UNION {[1..n -> Patterns] : n \in 0..MaxArgs} :
     \A i, j \in 1..Len(a) : i # j => a[i] # a[j]}

Schemas == {"public", "eth"}

Outs == {"", "out.json"}

Init ==
  /\ fs \in UNION {[D -> CliContents] : D \in SUBSET FileNames}
  /\ argv \in ArgLists
  /\ pc = "start"
  /\ files = <<>>
  /\ loaded = <<>>
  /\ abi = <<>>
  /\ events = <<>>
  /\ schemas = <<>>
  /\ stubs = <<>>
  /\ stdout = <<>>
  /\ written = NoFile
  /\ err = NoError

Next ==
  \/ \E pretty \in BOOLEAN : build_cmd(pretty)
  \/ \E target \in {"postgres", "bigquery", "clickhouse"}, schema \in Schemas : ddl_cmd(target, schema)
  \/ \E out \in Outs : json_cmd(out)
  \/ \E out \in Outs : dict_cmd(out)
  \/ \E pretty \in BOOLEAN : filters_cmd(pretty)

Spec == Init /\ [][Next]_vars

(***************************************************************************)
(* The pipeline, function by function: load, extract, project.             *)
(***************************************************************************)
SingleEntries ==
  UNION {WithOptional(e, "anonymous", {TRUE}) :
           e \in EventEntries(RawParams, MaxParams, {EmptyDict, [name |-> "Transfer"]})}

SingleAbis == {<<e>> : e \in SingleEntries \cup OtherEntries}

PairEntries ==
  EventEntries(PairParams, MaxPairParams, {[name |-> "Transfer"], [name |-> "Approval"]})
  \cup {FunctionEntry}

\* two entries in one file, or one in each of two files
PairDirs ==
  UNION {{[x \in {"a.json"} |-> Text(JList(<<e1, e2>>))],
          [x \in {"a.json", "b.json"} |-> IF x = "a.json" THEN Text(JList(<<e1>>)) ELSE Text(JList(<<e2>>))]} :
            e1 \in PairEntries, e2 \in UNION {WithOptional(e, "anonymous", {TRUE}) : e \in PairEntries}}

PureDirs ==
  {[x \in {"a.json"} |-> Text(JList(a))] : a \in SingleAbis}
  \cup {[x \in {p} |-> c] : p \in {"a.json", "abis/Token.v2.json"}, c \in Shapes}
  \cup PairDirs

InitPure ==
  /\ fs \in PureDirs
  /\ argv = <<>>
  /\ pc = "start"
  /\ files = sorted(DOMAIN fs)
  /\ loaded = <<>>
  /\ abi = <<>>
  /\ events = <<>>
  /\ schemas = <<>>
  /\ stubs = <<>>
  /\ stdout = <<>>
  /\ written = NoFile
  /\ err = NoError

\* load_abi_any(path) alone
LoadAbi(path) ==
  /\ pc = "start"
  /\ pc' = "loaded"
  /\ loaded' = <<path>>
  /\ abi' = load_abi_any(path, fs).abi
  /\ err' = load_abi_any(path, fs).err
  /\ UNCHANGED <<fs, argv, files, events, schemas, stubs, stdout, written>>

\* extract_events(p) for each file in turn
ExtractEvents ==
  /\ pc = "start"
  /\ pc' = "extracted"
  /\ loaded' = run_files(files, fs).loaded
  /\ events' = Flatten(run_files(files, fs).per)
  /\ err' = run_files(files, fs).err
  /\ UNCHANGED <<fs, argv, files, abi, schemas, stubs, stdout, written>>

JsonSchema ==
  /\ pc = "extracted"
  /\ err = NoError
  /\ pc' = "schema"
  /\ schemas' = [k \in 1..Len(events) |-> json_schema_for_event(events[k])]
  /\ UNCHANGED <<fs, argv, files, loaded, abi, events, stubs, stdout, written, err>>

FilterStub ==
  /\ pc = "extracted"
  /\ err = NoError
  /\ pc' = "stub"
  /\ stubs' = [k \in 1..Len(events) |-> filter_stub(events[k])]
  /\ UNCHANGED <<fs, argv, files, loaded, abi, events, schemas, stdout, written, err>>

NextPure ==
  \/ \E path \in DOMAIN fs : LoadAbi(path)
  \/ ExtractEvents
  \/ JsonSchema
  \/ FilterStub

SpecPure == InitPure /\ [][NextPure]_vars

(***************************************************************************)
(* What the inputs hold, read off the files themselves.                    *)
(***************************************************************************)
Range(q) == {q[k] : k \in 1..Len(q)}

IsShapeA(c) == c.valid /\ c.data.t = "list"
IsShapeB(c) == c.valid /\ c.data.t = "dict" /\ "abi" \in DOMAIN c.data.v /\ c.data.v["abi"].t = "list"
IsShapeC(c) ==
  /\ c.valid /\ c.data.t = "dict" /\ "result" \in DOMAIN c.data.v
  /\ c.data.v["result"].t = "str"
  /\ c.data.v["result"].enc.valid
  /\ c.data.v["result"].enc.data.t = "list"

Recognized(c) == IsShapeA(c) \/ IsShapeB(c) \/ IsShapeC(c)

\* valid JSON of no ABI container shape, as {"foo": "bar"} is
ShapeMalformed(c) == c.valid /\ ~Recognized(c)

\* the array a recognized file holds
Entries(c) ==
  IF IsShapeA(c) THEN c.data.v
  ELSE IF IsShapeB(c) THEN c.data.v["abi"].v
  ELSE c.data.v["result"].enc.data.v

IsEventEntry(e) == "type" \in DOMAIN e /\ e["type"] = "event"

SrcEventsOf(f) == IF Recognized(fs[f]) THEN SelectSeq(Entries(fs[f]), IsEventEntry) ELSE <<>>

\* the event entries of the files, in the files' order
SrcEvents == Flatten([k \in 1..Len(files) |-> SrcEventsOf(files[k])])

SrcInputs(e) == IF "inputs" \in DOMAIN e THEN e["inputs"] ELSE <<>>

ExpectedType(p) ==
  IF "type" \notin DOMAIN p THEN ""
  ELSE IF p["type"] = "uint" THEN "uint256"
  ELSE IF p["type"] = "int" THEN "int256"
  ELSE p["type"]

Extracted == pc \in {"extracted", "schema", "stub"} /\ err = NoError

(***************************************************************************)
(* C1: the signature of every EventModel is its name, "(", the normalized  *)
(* types of all its parameters in declaration order joined by ",", and ")";*)
(* the i-th type of the signature is inputs[i].type, so that a source      *)
(* "uint" is "uint256" and a source "int" is "int256" in both.             *)
(***************************************************************************)
C1_Signature ==
  Extracted =>
    /\ Len(events) = Len(SrcEvents)
    /\ \A k \in 1..Len(events) :
         LET ev == events[k]
             ins == SrcInputs(SrcEvents[k])
         IN /\ Len(ev.inputs) = Len(ins)
            /\ ev.name = Get(SrcEvents[k], "name", "")
            /\ ev.signature = ev.name \o "(" \o Join(",", [i \in 1..Len(ev.inputs) |-> ev.inputs[i].type]) \o ")"
            /\ \A i \in 1..Len(ins) : ev.inputs[i].type = ExpectedType(ins[i])

C1_Witness ==
  /\ Extracted
  /\ \E k \in 1..Len(events) :
       /\ SrcInputs(SrcEvents[k]) = <<P_uint, P_from, P_Value>>
       /\ events[k].signature = "Transfer(uint256,address,int256)"
       /\ events[k].inputs[1].type = "uint256"
       /\ events[k].inputs[3].type = "int256"

(***************************************************************************)
(* C2: topic0 is a function of the signature alone: two EventModels with   *)
(* equal signatures have equal topic0, and two entries with the same name  *)
(* and the same parameter types in the same order give equal signature and *)
(* equal topic0, whatever the names, flags and files.                      *)
(***************************************************************************)
SameNameAndTypes(e1, e2) ==
  /\ Get(e1, "name", "") = Get(e2, "name", "")
  /\ Len(SrcInputs(e1)) = Len(SrcInputs(e2))
  /\ \A i \in 1..Len(SrcInputs(e1)) :
       Get(SrcInputs(e1)[i], "type", "") = Get(SrcInputs(e2)[i], "type", "")

C2_Topic0OfSignature ==
  (Extracted /\ Len(events) = Len(SrcEvents)) =>
    \A i, j \in 1..Len(events) :
      /\ events[i].signature = events[j].signature => events[i].topic0 = events[j].topic0
      /\ SameNameAndTypes(SrcEvents[i], SrcEvents[j]) =>
           /\ events[i].signature = events[j].signature
           /\ events[i].topic0 = events[j].topic0

C2_Witness ==
  /\ Extracted
  /\ Len(events) = 2
  /\ events[1].file # events[2].file
  /\ events[1].anonymous # events[2].anonymous
  /\ Len(events[1].inputs) = 2
  /\ Len(events[2].inputs) = 2
  /\ events[1].inputs[1].name # events[2].inputs[1].name
  /\ events[1].inputs[2].name # events[2].inputs[2].name
  /\ events[1].signature = events[2].signature
  /\ events[1].topic0 = events[2].topic0

(***************************************************************************)
(* C3: an EventModel built from an entry with n parameters has n inputs,   *)
(* inputs[i] comes from the i-th parameter and has position i: the         *)
(* positions are 0..n-1 in declaration order, whichever are indexed.       *)
(***************************************************************************)
C3_Positions ==
  (Extracted /\ Len(events) = Len(SrcEvents)) =>
    \A k \in 1..Len(events) :
      LET ins == SrcInputs(SrcEvents[k]) IN
      /\ Len(events[k].inputs) = Len(ins)
      /\ \A i \in 1..Len(ins) :
           /\ events[k].inputs[i].position = i - 1
           /\ events[k].inputs[i].type = ExpectedType(ins[i])
           /\ events[k].inputs[i].indexed = Get(ins[i], "indexed", FALSE)
           /\ Get(ins[i], "name", "") # "" => events[k].inputs[i].name = ins[i]["name"]

C3_Witness ==
  /\ Extracted
  /\ \E k \in 1..Len(events) :
       /\ SrcInputs(SrcEvents[k]) = <<P_value, P_from, P_arg1>>
       /\ [i \in 1..3 |-> events[k].inputs[i].position] = <<0, 1, 2>>
       /\ [i \in 1..3 |-> events[k].inputs[i].indexed] = <<FALSE, TRUE, FALSE>>

(***************************************************************************)
(* C5: extract_events builds an EventModel for every entry of type "event" *)
(* whichever of name, inputs, anonymous and of each parameter's name, type *)
(* and indexed are present: a missing type is "", a missing or empty name  *)
(* is arg<i>, a missing indexed or anonymous is false.                     *)
(***************************************************************************)
\* every field that is present holds a value of its type
WellTyped(e) == \A i \in 1..Len(SrcInputs(e)) : Get(SrcInputs(e)[i], "type", "") # JNull

FixedProperties == {"block_number", "block_time", "tx_hash", "log_index", "address", "topic0"}

C9_SchemaProperties ==
  pc = "schema" =>
    \A k \in 1..Len(schemas) :
      LET props == schemas[k]["properties"]
          ins == events[k].inputs
      IN /\ FixedProperties \subseteq DOMAIN props
         /\ \A i \in 1..Len(ins) :
              Lower((IF ins[i].indexed THEN "idx_" ELSE "data_") \o ins[i].name) \in DOMAIN props
         /\ Cardinality(DOMAIN props) = 6 + Len(ins)
         /\ schemas[k]["additionalProperties"] = FALSE

(***************************************************************************)
(* C10: the topics of an event's filter stub are its topic0 followed by    *)
(* one placeholder per indexed parameter: 1 + (number of indexed           *)
(* parameters) elements, none for a parameter that is not indexed.         *)
(***************************************************************************)
C10_Topics ==
  (pc = "stub" /\ Len(events) = Len(SrcEvents)) =>
    /\ Len(stubs) = Len(events)
    /\ \A k \in 1..Len(stubs) :
         LET ins == SrcInputs(SrcEvents[k])
             topics == stubs[k].topics
         IN /\ Len(topics) = 1 + Cardinality({i \in 1..Len(ins) : Get(ins[i], "indexed", FALSE)})
            /\ topics[1] = events[k].topic0
            /\ \A m \in 2..Len(topics) : topics[m] = "<topic for indexed arg>"

C10_Witness ==
  /\ pc = "stub"
  /\ \E k \in 1..Len(stubs) :
       /\ SrcInputs(SrcEvents[k]) = <<P_from, P_value, P_to>>
       /\ Len(stubs[k].topics) = 3
       /\ stubs[k].topics[1] = events[k].topic0

(***************************************************************************)
(* C4: load_abi_any fails with the format error carrying the path for every*)
(* file that is not valid JSON and for every file of none of the three     *)
(* shapes, and with nothing else.                                          *)
(***************************************************************************)
C4_FormatError ==
  (pc = "loaded" /\ ~Recognized(fs[loaded[1]])) =>
    /\ err = ClickException("Unrecognized ABI format: " \o loaded[1])
    /\ abi = <<>>

(***************************************************************************)
(* The command line's claims.                                              *)
(***************************************************************************)
\* the sites that print or write an event
EventSites == {"event", "param", "json", "sql", "csv_row", "stub"}

EventOutput == {c \in Range(stdout) \cup Range(written.content) : c.site \in EventSites}

\* the file cannot be extracted
Fails(f) == ~Recognized(fs[f]) \/ \E k \in 1..Len(SrcEventsOf(f)) : ~WellTyped(SrcEventsOf(f)[k])

FailingIndexes == {k \in 1..Len(files) : Fails(files[k])}

FirstFailing == CHOOSE k \in FailingIndexes : \A j \in FailingIndexes : k <= j

(***************************************************************************)
(* C6 as stated: with one malformed file among several resolved files, the *)
(* others valid, the command fails with a format error naming it and the   *)
(* events of the valid files are still processed and emitted.              *)
(***************************************************************************)
C6_ValidFilesStillProcessed ==
  (/\ pc = "exit"
   /\ Len(files) >= 2
   /\ \E k \in 1..Len(files) :
        ShapeMalformed(fs[files[k]]) /\ \A j \in 1..Len(files) : j # k => ~Fails(files[j])) =>
    /\ \E k \in 1..Len(files) :
         ShapeMalformed(fs[files[k]]) /\ err = ClickException("Unrecognized ABI format: " \o files[k])
    /\ \A k \in 1..Len(files) :
         ~Fails(files[k]) =>
           /\ files[k] \in Range(loaded)
           /\ SrcEventsOf(files[k]) # <<>> =>
                /\ \E n \in 1..Len(events) : events[n].file = files[k]
                /\ EventOutput # {}

(***************************************************************************)
(* C6 amended: the first file, in sorted order, that fails to load ends    *)
(* the invocation: a file of valid JSON and no ABI shape by a format error *)
(* naming it. The files before it have been loaded and their events        *)
(* extracted (and printed already by filters alone); no file after it is   *)
(* loaded, and nothing is written.                                         *)
(***************************************************************************)
C6_AbortsAtFirstFailure ==
  (pc = "exit" /\ FailingIndexes # {}) =>
    LET k == FirstFailing
        before == Flatten([j \in 1..(k - 1) |-> SrcEventsOf(files[j])])
        stubsOut == SelectSeq(stdout, LAMBDA c : c.site = "stub")
    IN /\ err # NoError
       /\ ShapeMalformed(fs[files[k]]) => err = ClickException("Unrecognized ABI format: " \o files[k])
       /\ loaded = SubSeq(files, 1, k)
       /\ Len(events) = Len(before)
       /\ \A n \in 1..Len(events) : events[n].name = Get(before[n], "name", "")
       /\ written = NoFile
       /\ \/ stdout = <<>>
          \/ /\ \A n \in 1..Len(stdout) : stdout[n].site \in {"header", "stub", "blank"}
             /\ Len(stubsOut) = Len(events)

C6_Witness ==
  /\ pc = "exit"
  /\ Len(files) = 3
  /\ ~Fails(files[1]) /\ ShapeMalformed(fs[files[2]]) /\ ~Fails(files[3])
  /\ err = ClickException("Unrecognized ABI format: " \o files[2])
  /\ loaded = <<files[1], files[2]>>
  /\ Len(events) = 1
  /\ \E n \in 1..Len(stdout) : stdout[n].site = "stub"

(***************************************************************************)
(* C7: when loading a resolved file fails, no file after it is processed   *)
(* and no event output of any file has been printed or written by the time *)
(* the invocation aborts.                                                  *)
(***************************************************************************)
C7_NoPartialOutput ==
  (pc = "exit" /\ err # NoError /\ loaded # <<>>) =>
    /\ loaded = SubSeq(files, 1, Len(loaded))
    /\ \A j \in 1..(Len(loaded) - 1) : ~Fails(loaded[j])
    /\ EventOutput = {}
    /\ written = NoFile

(***************************************************************************)
(* C8 as stated: expand_paths fails with "No ABI files found", before any  *)
(* file is loaded, whenever a given path matches nothing and is not an     *)
(* existing file; otherwise it returns the resolved files.                 *)
(***************************************************************************)
Unmatched(p) == glob(p, fs) = {} /\ ~isfile(p, fs)

ResolvedSet ==
  UNION {IF glob(argv[i], fs) # {} THEN glob(argv[i], fs)
         ELSE IF isfile(argv[i], fs) THEN {argv[i]} ELSE {} : i \in 1..Len(argv)}

NoFilesFound == ClickException("No ABI files found")

C8_AnyUnmatchedPathFails ==
  (pc = "exit" /\ argv # <<>>) =>
    IF \E i \in 1..Len(argv) : Unmatched(argv[i])
      THEN err = NoFilesFound /\ loaded = <<>>
    ELSE err # NoFilesFound /\ Range(files) = ResolvedSet

(***************************************************************************)
(* C8 amended: expand_paths fails with "No ABI files found", before any    *)
(* file is loaded, exactly when no given path resolves to a file (each     *)
(* matches nothing and is not an existing file, or none is given);         *)
(* otherwise it returns the resolved files, sorted and without duplicates, *)
(* and the paths that resolve to nothing are dropped.                      *)
(***************************************************************************)
C8_NoFileResolved ==
  pc = "exit" =>
    IF \A i \in 1..Len(argv) : Unmatched(argv[i])
      THEN err = NoFilesFound /\ loaded = <<>> /\ files = <<>> /\ stdout = <<>> /\ written = NoFile
    ELSE /\ err # NoFilesFound
         /\ Range(files) = ResolvedSet
         /\ Len(files) = Cardinality(ResolvedSet)
         /\ \A i \in 1..(Len(files) - 1) : StrLess(files[i], files[i + 1])

C8_Witness ==
  /\ pc = "exit"
  /\ argv = <<"c.json", "[b].json">>
  /\ "b.json" \notin DOMAIN fs
  /\ files = <<"[b].json">>
  /\ loaded = <<"[b].json">>

====
